---- MODULE Spec2Model ----
(***************************************************************************)
(* Model of src/bonusly_poker.py: the Player ledger, the Game (round       *)
(* recording, pot, history, winner-takes-pot nets), the chip mapping of    *)
(* BonuslyPokerApp._setup_game, the greedy settlement sweep of             *)
(* BonuslyPokerApp._calculate_settlements and the control flow of          *)
(* BonuslyPokerApp.run.                                                    *)
(*                                                                         *)
(* One action is one input-consuming step of the interactive program (the  *)
(* answer to one prompt, together with everything the code does until it   *)
(* blocks on the next prompt); the settlement loop is one action per       *)
(* iteration.  pc is the position of run() / record_round().               *)
(***************************************************************************)
EXTENDS Integers, Sequences, FiniteSets, TLC

VARIABLES
    pc,              \* position in BonuslyPokerApp.run / Game.record_round
    player_configs,  \* BonuslyPokerApp.player_configs; <<>> stands for None
    games,           \* net_results of the games of self.games before the current one
    recorded,        \* number of actions recorded in the session so far (for MaxActions)
    min_stack,       \* _setup_game: min_stack (0 before the first setup)
    mapping_note,    \* _setup_game: which branch of the chip mapping was taken
    base_unit,       \* Game.base_unit
    players,         \* Game.players: sequence of Player records
    pot,             \* Game.pot
    round,           \* Game.round
    history,         \* Game.history
    winner,          \* Game.winner
    net_results,     \* Game.net_results (insertion-ordered dict)
    idx,             \* record_round: position of the for loop over self.players
    action,          \* record_round: local `action`
    amount_bonusly,  \* record_round: local `amount_bonusly`
    confirm,         \* record_round: local `confirm` (last answer to the warning)
    winner_name,     \* run: local `winner_name` (last answer to "Who won")
    error,           \* whether the last set_winner call raised ValueError
    again,           \* whether set_winner was called again on the game that has a winner
    net_totals,      \* run / _calculate_settlements: net_totals (ordered dict)
    debtors,         \* _calculate_settlements: debtors
    creditors,       \* _calculate_settlements: creditors
    i,               \* _calculate_settlements: debtor cursor (1-based)
    j,               \* _calculate_settlements: creditor cursor (1-based)
    settlements      \* _calculate_settlements: settlements

gameVars == <<base_unit, players, pot, round, history, winner, net_results>>
roundVars == <<idx, action, amount_bonusly, confirm>>
setupVars == <<player_configs, min_stack, mapping_note>>
settleVars == <<net_totals, debtors, creditors, i, j, settlements>>
vars == <<pc, player_configs, games, recorded, min_stack, mapping_note, base_unit, players,
          pot, round, history, winner, net_results, idx, action, amount_bonusly,
          confirm, winner_name, error, again, net_totals, debtors, creditors, i, j,
          settlements>>

(***************************************************************************)
(* Bounds of the model and the small sets inputs are drawn from.           *)
(***************************************************************************)
MaxActions == 6          \* actions recorded in one session, over all its games
MaxMinStack == 1000      \* chip mapping checked for min_stack in 1..MaxMinStack
MaxSettlePlayers == 4    \* entries of a net-totals mapping given to the settlement
MaxNet == 3              \* |net| of one entry of such a mapping

MinPlayers == 2          \* "if num_players < 2: ... continue"

None == "None"           \* Python's None for Game.winner
PlayerCounts == {2, 3}   \* answers to "number of people playing"
Names == {"A", "B"}      \* names typed at setup (may repeat)
OtherNames == {"Carol"}  \* a name typed at the winner prompt that no player has
Stacks == {4, 800}       \* starting stacks typed at setup (all > 0)
Actions == {"fold", "bet"}              \* answers to "What did they do?"
BettingActions == {"bet", "raise", "all-in", "call"}
chip_denoms == <<1, 5, 25, 100>>
\* chip counts typed for the denominations 1, 5, 25, 100
ChipInputs == {<<2, 0, 0, 0>>, <<0, 0, 0, 4>>}
Answers == {"y", "n"}

Max(a, b) == IF a >= b THEN a ELSE b
Min(a, b) == IF a <= b THEN a ELSE b

(***************************************************************************)
(* Python dict, insertion-ordered: a sequence of <<key, value>> pairs with *)
(* distinct keys.  d[k] = v replaces in place or appends.                  *)
(***************************************************************************)
DictHas(d, key) == \E k \in 1..Len(d) : d[k][1] = key
DictIndex(d, key) == CHOOSE k \in 1..Len(d) : d[k][1] = key
DictGet(d, key, default) ==
    IF DictHas(d, key) THEN d[DictIndex(d, key)][2] ELSE default
DictSet(d, key, val) ==
    IF DictHas(d, key)
    THEN [d EXCEPT ![DictIndex(d, key)] = <<key, val>>]
    ELSE Append(d, <<key, val>>)

RECURSIVE SumValues(_)
SumValues(d) == IF d = <<>> THEN 0 ELSE d[1][2] + SumValues(Tail(d))

(***************************************************************************)
(* Player                                                                  *)
(***************************************************************************)
Player(name, starting_stack) ==
    [name |-> name, starting_stack |-> starting_stack, stack |-> starting_stack,
     bets |-> <<>>, actions |-> <<>>, went_negative_override |-> FALSE]

\* variant of record_action that leaves the stack alone
record_actionKeepStack(p, round_number, act, amount) ==
    [p EXCEPT !.bets = Append(@, <<round_number, amount>>),
              !.actions = Append(@, <<round_number, act>>)]

\* variant of record_action that clears the override flag on an action without chips
record_actionClearFlag(p, round_number, act, amount) ==
    [p EXCEPT !.bets = Append(@, <<round_number, amount>>),
              !.actions = Append(@, <<round_number, act>>),
              !.stack = @ - amount,
              !.went_negative_override = @ /\ amount > 0]

record_action(p, round_number, act, amount) ==
    [p EXCEPT !.bets = Append(@, <<round_number, amount>>),
              !.actions = Append(@, <<round_number, act>>),
              !.stack = @ - amount]

RECURSIVE SumBets(_)
SumBets(bets) == IF bets = <<>> THEN 0 ELSE bets[1][2] + SumBets(Tail(bets))

total_bet(p) == SumBets(p.bets)

(***************************************************************************)
(* Chip mapping of _setup_game                                             *)
(***************************************************************************)
\* int(min_stack * 0.25): the product is exact in binary floating point and
\* int() truncates, which is floor for a positive value.
chip_100_value(ms) == (ms * 25) \div 100

FirstBaseUnit(ms) == chip_100_value(ms) \div 100

\* variant of ChipMapping that keeps the first value and has no fallback
ChipMappingNoFallback(ms) ==
    [base_unit |-> FirstBaseUnit(ms), mapping_note |-> "quarter"]

\* variant of ChipMapping whose fallback lacks the max(1, ...)
ChipMappingNoMax(ms) ==
    IF FirstBaseUnit(ms) < 1
    THEN [base_unit |-> ms \div 100, mapping_note |-> "fallback"]
    ELSE [base_unit |-> FirstBaseUnit(ms), mapping_note |-> "quarter"]

ChipMapping(ms) ==
    IF FirstBaseUnit(ms) < 1
    THEN [base_unit |-> Max(1, ms \div 100), mapping_note |-> "fallback"]
    ELSE [base_unit |-> FirstBaseUnit(ms), mapping_note |-> "quarter"]

RECURSIVE MinStackOf(_)
MinStackOf(configs) ==
    IF Len(configs) = 1 THEN configs[1][2]
    ELSE Min(configs[1][2], MinStackOf(Tail(configs)))

(***************************************************************************)
(* Game                                                                    *)
(***************************************************************************)
\* variant of HistoryEntry that records the pot before the action
HistoryEntryPotBefore(round_no, name, act, amount, pot_after) ==
    [round |-> round_no, player |-> name, action |-> act, amount |-> amount,
     pot_after |-> pot_after - amount]

HistoryEntry(round_no, name, act, amount, pot_after) ==
    [round |-> round_no, player |-> name, action |-> act, amount |-> amount,
     pot_after |-> pot_after]

\* variant of would_exceed that also warns on equality
would_exceedOrEqual(p, amount) == total_bet(p) + amount >= p.starting_stack

\* projected_total_bet > player.starting_stack
would_exceed(p, amount) == total_bet(p) + amount > p.starting_stack

\* variant of AddToPot that assigns instead of adding
AddToPotOverwrite(thePot, amount) == amount

\* self.pot += amount_bonusly
AddToPot(thePot, amount) == thePot + amount

\* variant of AppendHistory that inserts at the front
AppendHistoryFront(h, entry) == <<entry>> \o h

\* self.history.append(...)
AppendHistory(h, entry) == Append(h, entry)

\* variant of NextRound with the increment inside the for loop
NextRoundInLoop(r, k, n) == r + 1

\* self.round += 1 after the for loop: k is the position of the player who has
\* just acted, n the number of players
NextRound(r, k, n) == IF k = n THEN r + 1 ELSE r

\* total_units * self.base_unit for the typed chip counts
RECURSIVE TotalUnits(_, _)
TotalUnits(counts, k) ==
    IF k > Len(chip_denoms) THEN 0
    ELSE counts[k] * chip_denoms[k] + TotalUnits(counts, k + 1)

ChipAmount(counts, unit) == TotalUnits(counts, 1) * unit

\* the loop of set_winner over self.players, filling the dict
RECURSIVE NetLoop(_, _, _, _, _)
NetLoop(ps, k, name, thePot, acc) ==
    IF k > Len(ps) THEN acc
    ELSE NetLoop(ps, k + 1, name, thePot,
                 DictSet(acc, ps[k].name,
                         (0 - total_bet(ps[k]))
                           + (IF ps[k].name = name THEN thePot ELSE 0)))

PlayerNames(ps) == {ps[k].name : k \in 1..Len(ps)}

(***************************************************************************)
(* Initial state: the app is constructed, no game is set up yet.           *)
(***************************************************************************)
Blank ==
    /\ player_configs = <<>>
    /\ games = <<>>
    /\ recorded = 0
    /\ min_stack = 0
    /\ mapping_note = ""
    /\ base_unit = 0
    /\ players = <<>>
    /\ pot = 0
    /\ round = 1
    /\ history = <<>>
    /\ winner = None
    /\ net_results = <<>>
    /\ idx = 1
    /\ action = ""
    /\ amount_bonusly = 0
    /\ confirm = ""
    /\ winner_name = ""
    /\ error = FALSE
    /\ net_totals = <<>>
    /\ debtors = <<>>
    /\ creditors = <<>>
    /\ i = 1
    /\ j = 1
    /\ settlements = <<>>
    /\ again = FALSE

Init == pc = "setup" /\ Blank

(***************************************************************************)
(* _setup_game, as called by run: the player configuration is typed for    *)
(* the first game and reused afterwards; a new Game is constructed.        *)
(***************************************************************************)
ConfigInputs ==
    UNION {[1..n -> Names \X Stacks] : n \in {m \in PlayerCounts : ~(m < MinPlayers)}}

SetupGame(configs) ==
    /\ pc = "setup"
    /\ IF player_configs = <<>> THEN configs \in ConfigInputs
                                ELSE configs = player_configs
    /\ player_configs' = configs
    /\ min_stack' = MinStackOf(configs)
    /\ base_unit' = ChipMapping(MinStackOf(configs)).base_unit
    /\ mapping_note' = ChipMapping(MinStackOf(configs)).mapping_note
    /\ players' = [k \in 1..Len(configs) |-> Player(configs[k][1], configs[k][2])]
    /\ pot' = 0
    /\ round' = 1
    /\ history' = <<>>
    /\ winner' = None
    /\ net_results' = <<>>
    /\ idx' = 1
    /\ action' = ""
    /\ amount_bonusly' = 0
    /\ confirm' = ""
    /\ winner_name' = ""
    /\ error' = FALSE
    /\ again' = FALSE
    /\ pc' = "turn"
    /\ UNCHANGED <<games, recorded, settleVars>>

(***************************************************************************)
(* record_round: one player's turn.  Commit is lines 166-187: the ledger,  *)
(* the pot and the history are updated, and after the last player of the   *)
(* list the round counter is incremented and record_round returns.         *)
(***************************************************************************)
Commit(ps, act, amount) ==
    /\ players' = [ps EXCEPT ![idx] = record_action(@, round, act, amount)]
    /\ pot' = AddToPot(pot, amount)
    /\ history' = AppendHistory(history,
                     HistoryEntry(round, ps[idx].name, act, amount,
                                  AddToPot(pot, amount)))
    /\ recorded' = recorded + 1
    /\ round' = NextRound(round, idx, Len(ps))
    /\ IF idx = Len(ps)
       THEN idx' = 1 /\ pc' = "cont_round"
       ELSE idx' = idx + 1 /\ pc' = "turn"

\* the answer to "What did they do?"
Turn(act) ==
    /\ pc = "turn"
    /\ recorded < MaxActions
    /\ action' = act
    /\ amount_bonusly' = 0
    /\ confirm' = ""
    /\ IF act \in BettingActions
       THEN /\ pc' = "chips"
            /\ UNCHANGED <<players, pot, history, round, idx, recorded>>
       ELSE Commit(players, act, 0)
    /\ UNCHANGED <<setupVars, games, base_unit, winner, net_results, winner_name,
                   error, again, settleVars>>

\* the chip counts for the four denominations
EnterChips(counts) ==
    /\ pc = "chips"
    /\ amount_bonusly' = ChipAmount(counts, base_unit)
    /\ IF would_exceed(players[idx], ChipAmount(counts, base_unit))
       THEN /\ pc' = "confirm"
            /\ UNCHANGED <<players, pot, history, round, idx, recorded>>
       ELSE Commit(players, action, ChipAmount(counts, base_unit))
    /\ UNCHANGED <<setupVars, games, base_unit, winner, net_results, winner_name,
                   error, again, action, confirm, settleVars>>

\* variant of Confirm that commits a confirmed bet without setting the flag
ConfirmNoFlag(answer) ==
    /\ pc = "confirm"
    /\ confirm' = answer
    /\ IF answer # "y"
       THEN /\ pc' = "chips"
            /\ UNCHANGED <<players, pot, history, round, idx, recorded>>
       ELSE Commit(players, action, amount_bonusly)
    /\ UNCHANGED <<setupVars, games, base_unit, winner, net_results, winner_name,
                   error, again, action, amount_bonusly, settleVars>>

\* the answer to "Proceed with this bet anyway?"
Confirm(answer) ==
    /\ pc = "confirm"
    /\ confirm' = answer
    /\ IF answer # "y"
       THEN /\ pc' = "chips"
            /\ UNCHANGED <<players, pot, history, round, idx, recorded>>
       ELSE Commit([players EXCEPT ![idx].went_negative_override = TRUE],
                   action, amount_bonusly)
    /\ UNCHANGED <<setupVars, games, base_unit, winner, net_results, winner_name,
                   error, again, action, amount_bonusly, settleVars>>

\* run: the answer to "Record another round for this game?"
ContRound(answer) ==
    /\ pc = "cont_round"
    /\ IF answer = "y"
       THEN pc' = "turn"
       ELSE pc' = "winner"
    /\ UNCHANGED <<setupVars, games, recorded, gameVars, roundVars, winner_name,
                   error, again,
                   settleVars>>

(***************************************************************************)
(* set_winner                                                              *)
(***************************************************************************)
\* variant of set_winner that stores the winner before checking the name
set_winnerAssignFirst(name) ==
    /\ winner' = name
    /\ IF name \notin PlayerNames(players)
       THEN error' = TRUE /\ UNCHANGED net_results
       ELSE error' = FALSE /\ net_results' = NetLoop(players, 1, name, pot, <<>>)

\* variant of set_winner that returns at once when the game has a winner
set_winnerOnce(name) ==
    IF winner # None
    THEN /\ error' = FALSE
         /\ UNCHANGED <<winner, net_results>>
    ELSE IF name \notin PlayerNames(players)
    THEN /\ error' = TRUE
         /\ UNCHANGED <<winner, net_results>>
    ELSE /\ error' = FALSE
         /\ winner' = name
         /\ net_results' = NetLoop(players, 1, name, pot, <<>>)

set_winner(name) ==
    IF name \notin PlayerNames(players)
    THEN /\ error' = TRUE
         /\ UNCHANGED <<winner, net_results>>
    ELSE /\ error' = FALSE
         /\ winner' = name
         /\ net_results' = NetLoop(players, 1, name, pot, <<>>)

\* variant of SetWinner whose loop lacks the break after a successful call
SetWinnerNoBreak(name) ==
    /\ pc = "winner"
    /\ winner_name' = name
    /\ set_winner(name)
    /\ again' = FALSE
    /\ pc' = "winner"
    /\ UNCHANGED <<setupVars, games, recorded, base_unit, players, pot, round,
                   history, roundVars, settleVars>>

\* run: the answer to "Who won this game?"; the loop repeats on ValueError
SetWinner(name) ==
    /\ pc = "winner"
    /\ winner_name' = name
    /\ set_winner(name)
    /\ again' = FALSE
    /\ pc' = IF name \in PlayerNames(players) THEN "cont_game" ELSE "winner"
    /\ UNCHANGED <<setupVars, games, recorded, base_unit, players, pot, round,
                   history, roundVars, settleVars>>

\* a caller of the Game calls set_winner again on a finalized game
SetWinnerAgain(name) ==
    /\ pc = "cont_game"
    /\ winner_name' = name
    /\ set_winner(name)
    /\ again' = TRUE
    /\ UNCHANGED <<pc, setupVars, games, recorded, base_unit, players, pot, round,
                   history, roundVars, settleVars>>

(***************************************************************************)
(* run: the answer to "Play another game?", and the aggregation            *)
(***************************************************************************)
\* for name, net in game.net_results.items(): net_totals[name] = get + net
RECURSIVE AddResults(_, _)
AddResults(totals, results) ==
    IF results = <<>> THEN totals
    ELSE AddResults(DictSet(totals, results[1][1],
                            DictGet(totals, results[1][1], 0) + results[1][2]),
                    Tail(results))

RECURSIVE Aggregate(_, _)
Aggregate(totals, gs) ==
    IF gs = <<>> THEN totals
    ELSE Aggregate(AddResults(totals, gs[1]), Tail(gs))

ContGame(answer) ==
    /\ pc = "cont_game"
    /\ IF answer = "y"
       THEN /\ games' = Append(games, net_results)
            /\ pc' = "setup"
            /\ UNCHANGED net_totals
       ELSE /\ net_totals' = Aggregate(<<>>, Append(games, net_results))
            /\ pc' = IF Aggregate(<<>>, Append(games, net_results)) = <<>>
                     THEN "done" ELSE "settle_call"
            /\ UNCHANGED games
    /\ again' = FALSE
    /\ UNCHANGED <<setupVars, recorded, gameVars, roundVars, winner_name, error,
                   debtors, creditors, i, j, settlements>>

(***************************************************************************)
(* _calculate_settlements                                                  *)
(***************************************************************************)
\* variant of DebtorsOf that also takes the names whose net is zero
RECURSIVE DebtorsOfLe(_)
DebtorsOfLe(totals) ==
    IF totals = <<>> THEN <<>>
    ELSE (IF totals[1][2] <= 0 THEN <<<<totals[1][1], 0 - totals[1][2]>>>> ELSE <<>>)
         \o DebtorsOfLe(Tail(totals))

\* [(name, -net) for name, net in net_totals.items() if net < 0]
RECURSIVE DebtorsOf(_)
DebtorsOf(totals) ==
    IF totals = <<>> THEN <<>>
    ELSE (IF totals[1][2] < 0 THEN <<<<totals[1][1], 0 - totals[1][2]>>>> ELSE <<>>)
         \o DebtorsOf(Tail(totals))

\* variant of CreditorsOf that lists the creditors last-encountered first
RECURSIVE CreditorsOfReversed(_)
CreditorsOfReversed(totals) ==
    IF totals = <<>> THEN <<>>
    ELSE CreditorsOfReversed(Tail(totals))
         \o (IF totals[1][2] > 0 THEN <<totals[1]>> ELSE <<>>)

\* [(name, net) for name, net in net_totals.items() if net > 0]
RECURSIVE CreditorsOf(_)
CreditorsOf(totals) ==
    IF totals = <<>> THEN <<>>
    ELSE (IF totals[1][2] > 0 THEN <<totals[1]>> ELSE <<>>)
         \o CreditorsOf(Tail(totals))

\* lines 375-386: the two lists are built and the cursors start at the front
SettleBegin ==
    /\ pc = "settle_call"
    /\ debtors' = DebtorsOf(net_totals)
    /\ creditors' = CreditorsOf(net_totals)
    /\ settlements' = <<>>
    /\ i' = 1
    /\ j' = 1
    /\ pc' = "settle_loop"
    /\ UNCHANGED <<setupVars, games, recorded, gameVars, roundVars, winner_name,
                   error, again, net_totals>>

\* variant of TransferAmount that always transfers the whole debt
TransferAmountDebt(debt_amt, cred_amt) == debt_amt

\* variant of TransferAmount that moves one unit at a time
TransferAmountOne(debt_amt, cred_amt) == 1

\* variant of TransferAmount that transfers the larger of the two amounts
TransferAmountMax(debt_amt, cred_amt) == Max(debt_amt, cred_amt)

\* amount = min(debt_amt, cred_amt)
TransferAmount(debt_amt, cred_amt) == Min(debt_amt, cred_amt)

\* one iteration of the while loop, lines 388-405
SettleStep ==
    /\ pc = "settle_loop"
    /\ i <= Len(debtors)
    /\ j <= Len(creditors)
    /\ LET amount == TransferAmount(debtors[i][2], creditors[j][2])
           debt_amt == debtors[i][2] - amount
           cred_amt == creditors[j][2] - amount
       IN /\ settlements' = Append(settlements,
                 [from |-> debtors[i][1], to |-> creditors[j][1], amount |-> amount])
          /\ IF debt_amt = 0
             THEN i' = i + 1 /\ UNCHANGED debtors
             ELSE i' = i /\ debtors' = [debtors EXCEPT ![i] = <<debtors[i][1], debt_amt>>]
          /\ IF cred_amt = 0
             THEN j' = j + 1 /\ UNCHANGED creditors
             ELSE j' = j /\ creditors' = [creditors EXCEPT
                                             ![j] = <<creditors[j][1], cred_amt>>]
    /\ UNCHANGED <<pc, setupVars, games, recorded, gameVars, roundVars,
                   winner_name, error, again, net_totals>>

\* the loop condition fails: return settlements
SettleReturn ==
    /\ pc = "settle_loop"
    /\ ~(i <= Len(debtors) /\ j <= Len(creditors))
    /\ pc' = "done"
    /\ UNCHANGED <<setupVars, games, recorded, gameVars, roundVars, winner_name,
                   error, again, settleVars>>

(***************************************************************************)
(* The session: BonuslyPokerApp.run                                        *)
(***************************************************************************)
Next ==
    \/ \E configs \in ConfigInputs : SetupGame(configs)
    \/ \E act \in Actions : Turn(act)
    \/ \E counts \in ChipInputs : EnterChips(counts)
    \/ \E answer \in Answers : Confirm(answer)
    \/ \E answer \in Answers : ContRound(answer)
    \/ \E name \in Names \cup OtherNames : SetWinner(name)
    \/ \E answer \in Answers : ContGame(answer)
    \/ SettleBegin
    \/ SettleStep
    \/ SettleReturn

Spec == Init /\ [][Next]_vars

(***************************************************************************)
(* The Game used as an object: as the session, and set_winner may be       *)
(* called again on a game that has a winner.                               *)
(***************************************************************************)
NextGame ==
    \/ Next
    \/ \E name \in Names \cup OtherNames : SetWinnerAgain(name)

SpecGame == Init /\ [][NextGame]_vars

(***************************************************************************)
(* _calculate_settlements as a function of its argument: any mapping of up *)
(* to MaxSettlePlayers names to nets in -MaxNet..MaxNet.                   *)
(***************************************************************************)
SettleNames == <<"A", "B", "C", "D", "E", "F">>

\* the mapping with the keys SettleNames[1..n], in this order, and the values f
NetTotalsOf(n, f) == [k \in 1..n |-> <<SettleNames[k], f[k]>>]

InitSettle ==
    /\ pc = "settle_call"
    /\ \E n \in 0..MaxSettlePlayers :
         \E f \in [1..n -> (0 - MaxNet)..MaxNet] :
           /\ Blank!1 /\ Blank!2 /\ Blank!3 /\ Blank!4 /\ Blank!5 /\ Blank!6
           /\ Blank!7 /\ Blank!8 /\ Blank!9 /\ Blank!10 /\ Blank!11 /\ Blank!12
           /\ Blank!13 /\ Blank!14 /\ Blank!15 /\ Blank!16 /\ Blank!17 /\ Blank!18
           /\ net_totals = NetTotalsOf(n, f)
           /\ Blank!20 /\ Blank!21 /\ Blank!22 /\ Blank!23 /\ Blank!24
           /\ Blank!25

NextSettle == SettleBegin \/ SettleStep \/ SettleReturn

SpecSettle == InitSettle /\ [][NextSettle]_vars

\* the call runs to its return: the function's steps are not suspended forever
SpecSettleFair == SpecSettle /\ WF_vars(NextSettle)

(***************************************************************************)
(* The chip mapping as a function of min_stack in 1..MaxMinStack.          *)
(***************************************************************************)
InitChip ==
    /\ pc = "chip_call"
    /\ \E ms \in 1..MaxMinStack :
         /\ Blank!1 /\ Blank!2 /\ Blank!3
         /\ min_stack = ms
         /\ Blank!5 /\ Blank!6 /\ Blank!7
         /\ Blank!8 /\ Blank!9 /\ Blank!10 /\ Blank!11 /\ Blank!12 /\ Blank!13
         /\ Blank!14 /\ Blank!15 /\ Blank!16 /\ Blank!17 /\ Blank!18 /\ Blank!19
         /\ Blank!20 /\ Blank!21 /\ Blank!22 /\ Blank!23 /\ Blank!24
         /\ Blank!25

ComputeChipMapping ==
    /\ pc = "chip_call"
    /\ base_unit' = ChipMapping(min_stack).base_unit
    /\ mapping_note' = ChipMapping(min_stack).mapping_note
    /\ pc' = "chip_done"
    /\ UNCHANGED <<player_configs, games, recorded, min_stack, players, pot, round, history,
                   winner, net_results, roundVars, winner_name, error, again,
                   settleVars>>

NextChip == ComputeChipMapping

SpecChip == InitChip /\ [][NextChip]_vars

(***************************************************************************)
(* The chip mapping followed by the conversion of one betting action's     *)
(* chip counts with the base_unit it computed.                             *)
(***************************************************************************)
\* chip counts for the denominations 1, 5, 25, 100: none, one chip of each
\* denomination, and a mix
ChipCountInputs ==
    {<<0, 0, 0, 0>>, <<1, 0, 0, 0>>, <<0, 1, 0, 0>>, <<0, 0, 1, 0>>,
     <<0, 0, 0, 1>>, <<3, 2, 0, 1>>}

\* amount_bonusly = total_units * self.base_unit; self.pot += amount_bonusly
ConvertChips(counts) ==
    /\ pc = "chip_done"
    /\ amount_bonusly' = ChipAmount(counts, base_unit)
    /\ pot' = AddToPot(pot, ChipAmount(counts, base_unit))
    /\ pc' = "chip_bet"
    /\ UNCHANGED <<setupVars, games, recorded, base_unit, players, round, history,
                   winner, net_results, idx, action, confirm, winner_name, error,
                   again, settleVars>>

NextChipBet ==
    \/ ComputeChipMapping
    \/ \E counts \in ChipCountInputs : ConvertChips(counts)

SpecChipBet == InitChip /\ [][NextChipBet]_vars

(***************************************************************************)
(* Properties                                                              *)
(***************************************************************************)
RECURSIVE SumAmounts(_)
SumAmounts(entries) ==
    IF entries = <<>> THEN 0 ELSE entries[1].amount + SumAmounts(Tail(entries))

NumPlayers == Len(players)
InGame == players # <<>>
SomeOverride == \E k \in 1..NumPlayers : players[k].went_negative_override

\* C1: in every reachable state of a Game the pot equals the sum of the amounts
\* of all entries of its history.
C1_PotEqualsHistorySum == pot = SumAmounts(history)

\* a third round has begun, chips are in the pot and an override was confirmed
C1_Witness == InGame /\ round >= 3 /\ pot > 0 /\ SomeOverride /\ Len(history) >= 4

\* C2: after set_winner succeeds the net results sum to exactly 0.
C2_NetResultsSumZero == winner # None => SumValues(net_results) = 0

\* C3: for a net-totals mapping that sums to zero, the returned transfers applied
\* in order leave every balance at zero, and their amounts sum to the total
\* debtor magnitude.
RECURSIVE ApplyTransfers(_, _)
ApplyTransfers(balances, transfers) ==
    IF transfers = <<>> THEN balances
    ELSE LET t == transfers[1]
             paid == DictSet(balances, t.from, DictGet(balances, t.from, 0) + t.amount)
             got == DictSet(paid, t.to, DictGet(paid, t.to, 0) - t.amount)
         IN ApplyTransfers(got, Tail(transfers))

RECURSIVE DebtMagnitude(_)
DebtMagnitude(totals) ==
    IF totals = <<>> THEN 0
    ELSE (IF totals[1][2] < 0 THEN 0 - totals[1][2] ELSE 0) + DebtMagnitude(Tail(totals))

C3_SettlementZeroesBalances ==
    (pc = "done" /\ SumValues(net_totals) = 0) =>
        /\ \A k \in 1..Len(net_totals) :
               ApplyTransfers(net_totals, settlements)[k][2] = 0
        /\ SumAmounts(settlements) = DebtMagnitude(net_totals)

\* a zero-sum mapping that needs three transfers has been settled
C3_Witness ==
    /\ pc = "done"
    /\ SumValues(net_totals) = 0
    /\ Len(settlements) >= 3

\* C4: for every Player, in every reachable state, the current stack equals the
\* starting stack minus the sum of the amounts of the player's bet log.
C4_StackIsStartMinusBets ==
    \A k \in 1..NumPlayers :
        players[k].stack = players[k].starting_stack - SumBets(players[k].bets)

\* one player is below zero after an override, another has bet part of the stack
C4_Witness ==
    /\ \E k \in 1..NumPlayers : players[k].stack < 0
    /\ \E k \in 1..NumPlayers :
           players[k].stack > 0 /\ players[k].stack < players[k].starting_stack

\* C5: a betting action whose projected total bet exceeds the starting stack asks
\* for confirmation without mutating anything; declined, nothing is mutated and
\* chip counts are asked again; confirmed, it commits with that amount and the
\* override flag becomes true.  A projection that does not exceed the starting
\* stack (equality included) commits at once and leaves the flag as it was.
Committed(k, amount) ==
    /\ pot' = pot + amount
    /\ history' = Append(history, [round |-> round, player |-> players[k].name,
                                   action |-> action, amount |-> amount,
                                   pot_after |-> pot + amount])
    /\ players'[k].bets = Append(players[k].bets, <<round, amount>>)
    /\ players'[k].actions = Append(players[k].actions, <<round, action>>)
    /\ players'[k].stack = players[k].stack - amount
    /\ \A m \in 1..NumPlayers : m # k => players'[m] = players[m]

NothingMutated == UNCHANGED <<players, pot, history, round, idx>>

C5_Step ==
    /\ pc = "chips" =>
         IF SumBets(players[idx].bets) + amount_bonusly' > players[idx].starting_stack
         THEN pc' = "confirm" /\ NothingMutated
         ELSE /\ Committed(idx, amount_bonusly')
              /\ players'[idx].went_negative_override
                   = players[idx].went_negative_override
    /\ pc = "confirm" =>
         IF confirm' # "y"
         THEN pc' = "chips" /\ NothingMutated
         ELSE /\ Committed(idx, amount_bonusly)
              /\ players'[idx].went_negative_override = TRUE

C5_OverrideProtocol == [][C5_Step]_vars

\* an over-stack bet has just been confirmed and committed with the flag set,
\* and another player's bets reached the starting stack exactly without the flag
C5_Witness ==
    /\ confirm = "y"
    /\ history # <<>>
    /\ history[Len(history)].amount = amount_bonusly
    /\ \E k \in 1..NumPlayers :
          /\ players[k].went_negative_override
          /\ SumBets(players[k].bets) > players[k].starting_stack
    /\ \E k \in 1..NumPlayers :
          /\ ~players[k].went_negative_override
          /\ SumBets(players[k].bets) = players[k].starting_stack

\* C6: set_winner with a name no player has raises and mutates nothing: winner,
\* net_results, pot, history, round and the player ledgers are as before.
C6_Step ==
    ((pc = "winner" \/ (pc = "cont_game" /\ pc' = "cont_game"))
       /\ winner_name' \notin {players[k].name : k \in 1..NumPlayers})
    => /\ error' = TRUE
       /\ pc' = pc
       /\ UNCHANGED <<winner, net_results, pot, history, round, players>>

C6_UnknownWinnerMutatesNothing == [][C6_Step]_vars

\* a game that has a winner and net results was asked for an unknown winner
C6_Witness ==
    /\ error = TRUE
    /\ winner_name = "Carol"
    /\ winner \in Names
    /\ net_results # <<>>
    /\ pot > 0

C8_NamesDistinct ==
    /\ \A a, b \in 1..NumPlayers : a # b => players[a].name # players[b].name
    /\ winner # None => Len(net_results) = NumPlayers

\* C9: the history is ordered by round and, within a round, by player-list
\* order: rounds never decrease along it, and the k-th entry of a round names
\* the k-th player of the list.
C9_HistoryOrder ==
    /\ \A a, b \in 1..Len(history) : a < b => history[a].round <= history[b].round
    /\ \A k \in 1..Len(history) :
          /\ history[k].round = ((k - 1) \div NumPlayers) + 1
          /\ history[k].player = players[((k - 1) % NumPlayers) + 1].name

\* two full rounds of a three-player game are recorded
C9_Witness ==
    /\ NumPlayers = 3
    /\ Len(history) = 6
    /\ history[4].round = 2
    /\ players[1].name # players[2].name

\* C10: the round counter starts at 1 and goes up by one exactly when every
\* player of the list has committed one action in the current round; at a round
\* boundary len(history) = (round - 1) * number of players and every player's
\* bet log and action log have round - 1 entries.
AtRoundBoundary == InGame /\ idx = 1 /\ pc \notin {"chips", "confirm"}

C10_RoundCounter ==
    /\ round >= 1
    /\ InGame =>
         /\ round = (Len(history) \div NumPlayers) + 1
         /\ idx = (Len(history) % NumPlayers) + 1
         /\ \A k \in 1..NumPlayers :
               /\ Len(players[k].bets) = (round - 1) + (IF k < idx THEN 1 ELSE 0)
               /\ Len(players[k].actions) = Len(players[k].bets)
    /\ AtRoundBoundary =>
         /\ Len(history) = (round - 1) * NumPlayers
         /\ \A k \in 1..NumPlayers :
               Len(players[k].bets) = round - 1 /\ Len(players[k].actions) = round - 1

\* the third round of a two-player game is complete
C10_Witness ==
    AtRoundBoundary /\ pc = "cont_round" /\ round = 4 /\ NumPlayers = 2


\* C11: at the end of a session in which every game has a winner, the aggregate
\* net totals (per-name sums of net_results over the games) sum to zero.
C11_AggregateSumsZero ==
    pc \in {"settle_call", "settle_loop", "done"} => SumValues(net_totals) = 0


\* C12: in a session a Game is finalized once and is read-only afterwards: once
\* it has a winner, its pot, history, round counter, ledgers, winner and net
\* results stay as they are (the only change is that the next Game takes its
\* place as the current one, its results being kept in self.games, whose
\* entries never change), and a winner is only set after a completed round.
C12_Step ==
    /\ winner # None =>
         \/ UNCHANGED <<base_unit, players, pot, round, history, winner, net_results>>
         \/ /\ pc = "setup"
            /\ games # <<>>
            /\ games[Len(games)] = net_results
            /\ winner' = None
            /\ history' = <<>>
    /\ (winner = None /\ winner' # None) =>
         /\ pc = "winner"
         /\ round >= 2
         /\ Len(history) = (round - 1) * NumPlayers
         /\ UNCHANGED <<base_unit, players, pot, round, history>>
    /\ Len(games') >= Len(games)
    /\ SubSeq(games', 1, Len(games)) = games

C12_FinalizedOnceThenReadOnly == [][C12_Step]_vars

\* the second game of a session has its winner, the first one's results are kept
C12_Witness ==
    /\ Len(games) = 1
    /\ winner # None
    /\ pot > 0
    /\ pc = "cont_game"


\* C13: set_winner may be called again: with the same valid name and no round in
\* between, winner and net_results come out identical; with another valid name
\* they are replaced entirely by the result for that name (every entry is the
\* player's -total_bet, plus the pot for the new winner).
LastPlayerNamed(name) ==
    CHOOSE k \in 1..NumPlayers :
        /\ players[k].name = name
        /\ \A m \in (k + 1)..NumPlayers : players[m].name # name

C13_Step ==
    (pc = "cont_game" /\ pc' = "cont_game"
       /\ winner_name' \in {players[k].name : k \in 1..NumPlayers})
    => /\ winner' = winner_name'
       /\ winner_name' = winner => net_results' = net_results
       /\ {net_results'[k][1] : k \in 1..Len(net_results')}
            = {players[k].name : k \in 1..NumPlayers}
       /\ \A k \in 1..Len(net_results') :
             net_results'[k][2] =
                 (0 - SumBets(players[LastPlayerNamed(net_results'[k][1])].bets))
                   + (IF net_results'[k][1] = winner_name' THEN pot ELSE 0)
       /\ UNCHANGED <<players, pot, history, round>>

C13_SetWinnerAgain == [][C13_Step]_vars

\* set_winner was called again and succeeded on a game with money in the pot:
\* the winner is the name of that call and the loser's entry is negative
C13_Witness ==
    /\ again
    /\ ~error
    /\ winner = "B"
    /\ pot > 0
    /\ \E k \in 1..Len(net_results) : net_results[k][1] = "A" /\ net_results[k][2] < 0


\* C14: every transfer of calculate_settlements, for any input mapping, has an
\* amount > 0, a 'from' whose input net is negative and a 'to' whose input net
\* is positive; a name whose input net is zero is in no transfer.
NetOf(name) == DictGet(net_totals, name, 0)

C14_TransfersWellFormed ==
    pc \in {"settle_loop", "done"} =>
        /\ \A k \in 1..Len(settlements) :
              /\ settlements[k].amount > 0
              /\ DictHas(net_totals, settlements[k].from)
              /\ DictHas(net_totals, settlements[k].to)
              /\ NetOf(settlements[k].from) < 0
              /\ NetOf(settlements[k].to) > 0
        /\ \A m \in 1..Len(net_totals) :
              net_totals[m][2] = 0 =>
                 \A k \in 1..Len(settlements) :
                    /\ settlements[k].from # net_totals[m][1]
                    /\ settlements[k].to # net_totals[m][1]

\* a mapping that does not sum to zero and has a zero entry between a debtor and
\* a creditor has been settled with a transfer
C14_Witness ==
    /\ pc = "done"
    /\ SumValues(net_totals) # 0
    /\ Len(net_totals) >= 3
    /\ net_totals[1][2] < 0
    /\ net_totals[2][2] = 0
    /\ net_totals[3][2] > 0
    /\ Len(settlements) >= 1


\* C15: went_negative_override is latched: every Player starts with it false,
\* and once it is true it stays true in every later state of that Game.
C15_Step ==
    IF pc = "setup"
    THEN \A k \in 1..Len(players') : ~players'[k].went_negative_override
    ELSE /\ Len(players') = Len(players)
         /\ \A k \in 1..Len(players) :
               players[k].went_negative_override => players'[k].went_negative_override

C15_OverrideLatched == [][C15_Step]_vars

\* a player confirmed an over-stack bet in round 1 and folded in round 2
C15_Witness ==
    \E k \in 1..NumPlayers :
        /\ players[k].went_negative_override
        /\ Len(players[k].bets) >= 2
        /\ players[k].bets[1][2] > players[k].starting_stack
        /\ players[k].actions[2][2] = "fold"


\* C16: the pot_after of the k-th history entry is the sum of the amounts of
\* entries 1..k; pot_after never decreases along the history, and the last
\* entry's pot_after is the current pot.
C16_PotAfterIsPrefixSum ==
    /\ \A k \in 1..Len(history) :
          history[k].pot_after = SumAmounts(SubSeq(history, 1, k))
    /\ \A k \in 1..(Len(history) - 1) :
          history[k].pot_after <= history[k + 1].pot_after
    /\ history # <<>> => history[Len(history)].pot_after = pot

\* a bet, an action without chips and another bet are in the history
C16_Witness ==
    /\ Len(history) >= 3
    /\ history[1].amount > 0
    /\ history[2].amount = 0
    /\ history[2].pot_after = history[1].pot_after
    /\ history[3].amount > 0
    /\ history[3].pot_after > history[2].pot_after


\* C17: calculate_settlements serves debtors and creditors in the encounter
\* order of the input mapping, without sorting by magnitude: along the transfer
\* list the position of 'from' among the input's debtors and the position of
\* 'to' among the input's creditors never decrease (they start at the first and
\* go on to the next), and a debtor (creditor) is left for the next one only
\* once its whole magnitude has been transferred.
InputIndex(name) == CHOOSE m \in 1..Len(net_totals) : net_totals[m][1] = name

\* position of a name among the names with a negative net, in input order
DebtorRank(name) ==
    Cardinality({m \in 1..InputIndex(name) : net_totals[m][2] < 0})

\* position of a name among the names with a positive net, in input order
CreditorRank(name) ==
    Cardinality({m \in 1..InputIndex(name) : net_totals[m][2] > 0})

\* what name has paid, and what it has received, in the first k transfers
PaidUpTo(name, k) ==
    SumAmounts(SelectSeq(SubSeq(settlements, 1, k), LAMBDA t : t.from = name))

ReceivedUpTo(name, k) ==
    SumAmounts(SelectSeq(SubSeq(settlements, 1, k), LAMBDA t : t.to = name))

C17_EncounterOrder ==
    pc \in {"settle_loop", "done"} =>
        /\ settlements # <<>> =>
              /\ DebtorRank(settlements[1].from) = 1
              /\ CreditorRank(settlements[1].to) = 1
        /\ \A k \in 1..(Len(settlements) - 1) :
              LET a == settlements[k]
                  b == settlements[k + 1]
              IN /\ DebtorRank(a.from) <= DebtorRank(b.from)
                 /\ DebtorRank(b.from) <= DebtorRank(a.from) + 1
                 /\ CreditorRank(a.to) <= CreditorRank(b.to)
                 /\ CreditorRank(b.to) <= CreditorRank(a.to) + 1
                 /\ a.from # b.from => PaidUpTo(a.from, k) = 0 - NetOf(a.from)
                 /\ a.to # b.to => ReceivedUpTo(a.to, k) = NetOf(a.to)

\* the smaller debtor and the larger creditor come first in the input and are
\* served first; the second debtor pays both creditors
C17_Witness ==
    /\ pc = "done"
    /\ Len(net_totals) = 4
    /\ net_totals[1][2] = 0 - 1
    /\ net_totals[2][2] = 0 - 3
    /\ net_totals[3][2] = 3
    /\ net_totals[4][2] = 1
    /\ Len(settlements) = 3
    /\ settlements[1].from = "A"
    /\ settlements[2].from = "B"
    /\ settlements[2].to = "C"
    /\ settlements[3].to = "D"


\* C18: whenever a player's action has been committed, the player's
\* went_negative_override flag is true if and only if the player's total_bet
\* exceeds the starting_stack, that is, if and only if the current stack is
\* negative.
C18_FlagIffOverStack ==
    \A k \in 1..NumPlayers :
        /\ players[k].went_negative_override
             <=> (SumBets(players[k].bets) > players[k].starting_stack)
        /\ players[k].went_negative_override <=> (players[k].stack < 0)

\* a round is complete in which one player went below zero with the flag and
\* another one bet the starting stack exactly, without it
C18_Witness ==
    /\ pc = "cont_round"
    /\ \E k \in 1..NumPlayers :
          players[k].went_negative_override /\ players[k].stack < 0
    /\ \E k \in 1..NumPlayers :
          ~players[k].went_negative_override /\ players[k].stack = 0


\* C19: for any input mapping, also one that does not sum to zero,
\* calculate_settlements never over-settles: what a debtor pays over all
\* transfers is at most its magnitude -net, what a creditor receives is at most
\* its magnitude net, and the amounts of the returned transfers sum to
\* min(total debtor magnitude, total creditor magnitude).
RECURSIVE CreditMagnitude(_)
CreditMagnitude(totals) ==
    IF totals = <<>> THEN 0
    ELSE (IF totals[1][2] > 0 THEN totals[1][2] ELSE 0) + CreditMagnitude(Tail(totals))

C19_NeverOverSettles ==
    pc \in {"settle_loop", "done"} =>
        /\ \A m \in 1..Len(net_totals) :
              LET name == net_totals[m][1]
                  net == net_totals[m][2]
              IN /\ PaidUpTo(name, Len(settlements)) <= Max(0, 0 - net)
                 /\ ReceivedUpTo(name, Len(settlements)) <= Max(0, net)
        /\ pc = "done" =>
              SumAmounts(settlements)
                = Min(DebtMagnitude(net_totals), CreditMagnitude(net_totals))

\* a mapping that owes more than it is owed has been settled: the creditors
\* are paid in full and a debtor has paid a part of its debt only
C19_Witness ==
    /\ pc = "done"
    /\ DebtMagnitude(net_totals) > CreditMagnitude(net_totals)
    /\ Len(settlements) >= 2
    /\ SumAmounts(settlements) = CreditMagnitude(net_totals)
    /\ \E m \in 1..Len(net_totals) :
          /\ PaidUpTo(net_totals[m][1], Len(settlements)) > 0
          /\ PaidUpTo(net_totals[m][1], Len(settlements)) < 0 - net_totals[m][2]


\* C20: calculate_settlements terminates for every finite input mapping: every
\* loop iteration advances at least one of the two cursors, so with D debtors
\* and C creditors, both non-empty, it returns at most D + C - 1 transfers, and
\* it returns the empty list when there are no debtors or no creditors.
NumDebtors == Cardinality({m \in 1..Len(net_totals) : net_totals[m][2] < 0})

NumCreditors == Cardinality({m \in 1..Len(net_totals) : net_totals[m][2] > 0})

C20_Bound ==
    pc \in {"settle_loop", "done"} =>
        /\ (NumDebtors > 0 /\ NumCreditors > 0) =>
              Len(settlements) <= NumDebtors + NumCreditors - 1
        /\ (NumDebtors = 0 \/ NumCreditors = 0) => settlements = <<>>

C20_Step ==
    (pc = "settle_loop" /\ pc' = "settle_loop") =>
        /\ i' >= i
        /\ j' >= j
        /\ i' + j' > i + j
        /\ Len(settlements') = Len(settlements) + 1

C20_Terminates ==
    /\ [][C20_Step]_vars
    /\ []C20_Bound
    /\ <>(pc = "done")

\* two debtors and two creditors were settled with the largest number of
\* transfers there can be
C20_Witness ==
    /\ pc = "done"
    /\ NumDebtors = 2
    /\ NumCreditors = 2
    /\ Len(settlements) = NumDebtors + NumCreditors - 1
    /\ i + j = NumDebtors + NumCreditors + 1


\* C21: for every positive integer min_stack the chip mapping yields
\* base_unit >= 1, so every amount converted from chip counts is a non-negative
\* integer multiple of base_unit, and chip counts with at least one chip add a
\* strictly positive amount to the pot.
ChipUnits(counts) == counts[1] + 5 * counts[2] + 25 * counts[3] + 100 * counts[4]

C21_BaseUnit ==
    pc \in {"chip_done", "chip_bet"} => (min_stack >= 1 => base_unit >= 1)

C21_Step ==
    pc = "chip_done" =>
        /\ base_unit >= 1
        /\ amount_bonusly' >= 0
        /\ amount_bonusly' % base_unit = 0
        /\ amount_bonusly' \in {ChipUnits(c) * base_unit : c \in ChipCountInputs}
        /\ pot' = pot + amount_bonusly'
        /\ \A c \in ChipCountInputs :
              (amount_bonusly' = ChipUnits(c) * base_unit
                 /\ \E d \in 1..4 : c[d] > 0)
              => (amount_bonusly' > 0 /\ pot' > pot)

C21_BaseUnitPositive == []C21_BaseUnit /\ [][C21_Step]_vars

\* a lowest stack below 100, for which min_stack // 100 is 0, got base_unit 1,
\* and one chip of the denomination 1 added 1 to the pot
C21_Witness ==
    /\ pc = "chip_bet"
    /\ min_stack = 99
    /\ base_unit = 1
    /\ amount_bonusly = 1
    /\ pot = 1

====
